---- MODULE Spec2Model ----
(***************************************************************************)
(* Model of the two FIR document back ends:                                *)
(*   variant 1: src/backend/app/main.py  (JWT authentication + audit log)  *)
(*   variant 2: src/main.py              (no authentication)               *)
(* Strings that the code inspects character by character (complaint_text,  *)
(* extracted page text) are sequences of one-character strings.  Lengths   *)
(* on the page are in hundredths of a point.                               *)
(***************************************************************************)
EXTENDS Integers, Sequences, FiniteSets, TLC

\* variant     which back end runs: 1 = src/backend/app/main.py, 2 = src/main.py
\* now         datetime.utcnow() in minutes; ticks counts its advances
\* issued      the tokens POST /token has returned, with the minute of issue
\* fs          the files on disk: path -> content (temp files, generated_pdfs/)
\* audit_logs  the rows of table audit_logs in insertion order
\* reqs        per worker, the request it is handling and where the handler is
\* uuids       the values uuid.uuid4() has returned
\* links       the download links returned so far, with the document drawn
\* gen         generate_fir of variant 1 run line by line (SpecLayout only)
VARIABLES variant, now, ticks, issued, fs, audit_logs, reqs, uuids, links, gen

vars == <<variant, now, ticks, issued, fs, audit_logs, reqs, uuids, links, gen>>

(* ------------------------------ bounds --------------------------------- *)
MaxNewlines == 95
NumUuids == 2
MaxReqs == 2
MaxTicks == 2
MaxLogins == 1

(* --------------------------- program constants ------------------------- *)
ACCESS_TOKEN_EXPIRE_MINUTES == 30
DEFAULT_EXPIRE_MINUTES == 15
A4_height == 84189

None == "None"
Pt(n) == n * 100

(* ------------------------------ strings -------------------------------- *)
Whitespace == {" ", "\n", "\t"}

RECURSIVE split(_)
split(s) ==
  IF \A i \in 1..Len(s) : s[i] # "\n"
    THEN <<s>>
    ELSE LET i == CHOOSE k \in 1..Len(s) :
                    s[k] = "\n" /\ \A j \in 1..(k - 1) : s[j] # "\n"
         IN  <<SubSeq(s, 1, i - 1)>> \o split(SubSeq(s, i + 1, Len(s)))

strip(s) ==
  IF \A i \in 1..Len(s) : s[i] \in Whitespace
    THEN <<>>
    ELSE LET a == CHOOSE k \in 1..Len(s) :
                    s[k] \notin Whitespace /\ \A j \in 1..(k - 1) : s[j] \in Whitespace
             b == CHOOSE k \in 1..Len(s) :
                    s[k] \notin Whitespace /\ \A j \in (k + 1)..Len(s) : s[j] \in Whitespace
         IN  SubSeq(s, a, b)

RECURSIVE join(_)
join(segs) ==
  IF Len(segs) = 1 THEN segs[1] ELSE segs[1] \o <<"\n">> \o join(Tail(segs))

(* ----------------------- FIR layout, variant 1 ------------------------- *)
drawString(x, y, font, text) ==
  [op |-> "drawString", x |-> x, y |-> y, font |-> font, text |-> text]

showPage == [op |-> "showPage", x |-> 0, y |-> 0, font |-> <<>>, text |-> <<>>]

line_op(x, y) == [op |-> "line", x |-> x, y |-> y, font |-> <<>>, text |-> <<>>]

rect_op(x, y) == [op |-> "rect", x |-> x, y |-> y, font |-> <<>>, text |-> <<>>]

height == A4_height

\* The title block: lines 162-175 of the authenticated generate_fir.
Header(form) ==
  LET y0 == height - Pt(50)
      y1 == y0 - Pt(30)
      y2 == y1 - Pt(20)
      y3 == y2 - Pt(40)
  IN  [canvas |-> << drawString(Pt(50), y0, <<"Helvetica-Bold", 16>>, <<"FIR No.: ", form.fir_no>>),
                     drawString(Pt(50), y1, <<"Helvetica", 12>>, <<"Victim Name: ", form.victim_name>>),
                     drawString(Pt(50), y2, <<"Helvetica", 12>>, <<"Fraud Amount: ", form.fraud_amount>>),
                     drawString(Pt(50), y3, <<"Helvetica-Bold", 14>>, <<"Complaint Details:">>) >>,
       y |-> y3 - Pt(20)]

\* A page break that leaves the cursor where it is.
NewPage_noreset(st) ==
  IF st.y < Pt(50)
    THEN [canvas |-> Append(st.canvas, showPage), y |-> st.y]
    ELSE st

\* Lines 179-181: start a new page when the cursor is below the bottom margin.
NewPage(st) ==
  IF st.y < Pt(50)
    THEN [canvas |-> Append(st.canvas, showPage), y |-> height - Pt(50)]
    ELSE st

\* One iteration of the loop over complaint_text.split("\n"), lines 179-183.
LoopBody(st, line) ==
  LET s == NewPage(st)
  IN  [canvas |-> Append(s.canvas, drawString(Pt(50), s.y, <<"Helvetica", 11>>, strip(line))),
       y |-> s.y - Pt(15)]

RECURSIVE ComplaintLoop(_, _)
ComplaintLoop(lines, st) ==
  IF lines = <<>> THEN st ELSE ComplaintLoop(Tail(lines), LoopBody(st, Head(lines)))

\* c.save() closes the last page and writes the document.
save(canvas) == [kind |-> "canvas", data |-> Append(canvas, showPage)]

generate_canvas_v1(form) ==
  save(ComplaintLoop(split(form.complaint_text), Header(form)).canvas)

(* ----------------------- FIR layout, variant 2 ------------------------- *)
\* src/main.py generate_fir: a fixed template; complaint_text is accepted
\* and not drawn.  30 mm is 85.04 pt; centred x positions are kept symbolic.
generate_canvas_v2(form) ==
  LET margin_left == 8504
      margin_top == height - 8504
      line_height == Pt(14)
      notes_top == margin_top - (line_height * 13) \div 2
      line_y == notes_top - Pt(10)
      line_spacing == Pt(15)
      flowchart_title_y == line_y - line_spacing * 8 - Pt(10)
      flowchart_box_top == flowchart_title_y - Pt(20)
      flowchart_box_height == Pt(200)
      centered == -1
  IN  save(
        << drawString(margin_left, margin_top, <<"Helvetica-Bold", 14>>,
                      <<"FIR no.: ", form.fir_no, " dated ", form.fir_date>>),
           drawString(margin_left, margin_top - (line_height * 3) \div 2, <<"Helvetica-Bold", 12>>,
                      <<"Under Section: ", form.section>>),
           drawString(margin_left, margin_top - line_height * 3, <<"Helvetica-Bold", 12>>,
                      <<"Victim's Name: ", form.victim_name>>),
           drawString(margin_left, margin_top - (line_height * 9) \div 2, <<"Helvetica-Bold", 12>>,
                      <<"Total Fraud Amount: ", form.fraud_amount, " /- INR">>),
           drawString(margin_left, notes_top, <<"Helvetica", 11>>, <<"Notes:-">>) >>
        \o [i \in 1..7 |-> line_op(margin_left, line_y - (i - 1) * line_spacing)]
        \o << drawString(centered, flowchart_title_y, <<"Helvetica-BoldOblique", 14>>, <<"Flow Chart">>),
              line_op(centered, flowchart_title_y - Pt(2)),
              rect_op(margin_left, flowchart_box_top - flowchart_box_height),
              drawString(centered, flowchart_box_top - flowchart_box_height \div 2,
                         <<"Helvetica", 10>>, <<"Flow chart diagram goes here">>) >>)

generate_canvas(v, form) ==
  IF v = 1 THEN generate_canvas_v1(form) ELSE generate_canvas_v2(form)

(* --------------------------- text extraction --------------------------- *)
Bytes(kind, data) == [kind |-> kind, data |-> data]

EmptyFile == Bytes("empty", <<>>)

\* pdfplumber.open raises on anything that is not a PDF.
parses(content) == content.kind = "pdf"

RECURSIVE extract_pages(_)
extract_pages(pages) ==
  IF pages = <<>> THEN <<>>
  ELSE (IF Head(pages) # <<>> THEN Head(pages) \o <<"\n">> ELSE <<>>)
       \o extract_pages(Tail(pages))

(* ------------------------------ file system ---------------------------- *)
OUTPUT_DIR == "generated_pdfs"
CWD == "."

Uuids == 1..NumUuids

\* A temp file name that does not depend on the generated token.
temp_filename_fixed(u) == <<CWD, "temp_", 0>>

temp_filename(u) == <<CWD, "temp_", u>>

\* An output file name that does not depend on the generated token.
output_filename_fixed(u) == <<OUTPUT_DIR, "FIR_", 0>>

output_filename(u) == <<OUTPUT_DIR, "FIR_", u>>

basename(path) == <<path[2], path[3]>>

os_path_join(dir, filename) == <<dir, filename[1], filename[2]>>

\* "." and ".." name directories in every directory; OUTPUT_DIR itself exists.
is_dir(path) == path[2] \in {".", ".."}

os_path_exists(path) == path \in DOMAIN fs \/ is_dir(path)

write_file(f, path, content) ==
  [p \in DOMAIN f \cup {path} |-> IF p = path THEN content ELSE f[p]]

remove_file(f, path) == [p \in DOMAIN f \ {path} |-> f[p]]

\* uuid.uuid4(): a token not produced before.  Tokens are interchangeable,
\* so the lowest unused one stands for the fresh random token.
uuid4 == {u \in Uuids : u \notin uuids /\ \A v \in Uuids \ uuids : u <= v}

(* ---------------------------- authentication --------------------------- *)
\* hashed_password stands for the bcrypt hash of the password the source
\* comment gives for it ("secret").
fake_users_db ==
  [u \in {"admin"} |->
     [username |-> "admin", full_name |-> "Admin User",
      hashed_password |-> <<"bcrypt", "secret">>, disabled |-> FALSE]]

NoUser == [username |-> None, full_name |-> None,
           hashed_password |-> <<>>, disabled |-> FALSE]

verify_password(plain_password, hashed_password) ==
  hashed_password = <<"bcrypt", plain_password>>

get_user(db, username) ==
  IF username \in DOMAIN db THEN db[username] ELSE NoUser

authenticate_user(db, username, password) ==
  LET user == get_user(db, username)
  IN  IF user = NoUser THEN NoUser
      ELSE IF ~verify_password(password, user.hashed_password) THEN NoUser
      ELSE user

\* A signed token: the claims and whether the signature is SECRET_KEY's.
Jwt(sub, exp, sig) == [sub |-> sub, exp |-> exp, sig |-> sig]

NoToken == Jwt(None, 0, "missing")

\* The expires_delta argument is ignored and the 15 minute default used.
create_access_token_default(sub, expires_delta, t) ==
  Jwt(sub, t + DEFAULT_EXPIRE_MINUTES, "good")

create_access_token(sub, expires_delta, t) ==
  Jwt(sub, t + (IF expires_delta # 0 THEN expires_delta ELSE DEFAULT_EXPIRE_MINUTES), "good")

\* jwt.decode without the signature check.
jwt_decode_ok_unverified(token, t) == token.sig # "missing" /\ ~(token.exp < t)

\* jwt.decode raises JWTError on a bad signature or when exp is in the past.
jwt_decode_ok(token, t) == token.sig = "good" /\ ~(token.exp < t)

Unauthorized ==
  [ok |-> FALSE, status |-> 401, headers |-> <<"WWW-Authenticate: Bearer">>, username |-> None]

\* oauth2_scheme rejects a request without a bearer token with 401.
get_current_user(token, t) ==
  IF token.sig = "missing" THEN Unauthorized
  ELSE IF ~jwt_decode_ok(token, t) THEN Unauthorized
  ELSE IF token.sub = None THEN Unauthorized
  ELSE IF get_user(fake_users_db, token.sub) = NoUser THEN Unauthorized
  ELSE [ok |-> TRUE, status |-> 200, headers |-> <<>>, username |-> token.sub]

get_current_active_user(token, t) ==
  LET current_user == get_current_user(token, t)
  IN  IF ~current_user.ok THEN current_user
      ELSE IF get_user(fake_users_db, current_user.username).disabled
        THEN [ok |-> FALSE, status |-> 400, headers |-> <<>>, username |-> None]
      ELSE current_user

\* Variant 2 has no dependency on a user: every call passes.
depends(v, token, t) ==
  IF v = 1 THEN get_current_active_user(token, t)
  ELSE [ok |-> TRUE, status |-> 200, headers |-> <<>>, username |-> None]

(* -------------------------------- audit -------------------------------- *)
AuditLog(id, username, action, timestamp) ==
  [id |-> id, username |-> username, action |-> action, timestamp |-> timestamp]

\* The row is stored under a fixed primary key, replacing what was there.
log_action_fixed_id(log, username, action, t) ==
  IF log = <<>> THEN <<AuditLog(1, username, action, t)>>
  ELSE [log EXCEPT ![1] = AuditLog(1, username, action, t)]

\* session.add + commit: a new row, next primary key, timestamp utcnow().
log_action(log, username, action, t) ==
  Append(log, AuditLog(Len(log) + 1, username, action, t))

(* ------------------------------- inputs -------------------------------- *)
Reqs == 1..MaxReqs

ClockSteps == {1, ACCESS_TOKEN_EXPIRE_MINUTES - 1}

Credentials ==
  { [username |-> "admin", password |-> "secret"],
    [username |-> "admin", password |-> "wrong"],
    [username |-> "ghost", password |-> "secret"] }

FarFuture == 1000

\* Tokens a client can forge: badly signed, or signed with the published
\* SECRET_KEY but without a subject or naming nobody in fake_users_db.
ForgedTokens ==
  { Jwt("admin", FarFuture, "bad"),
    Jwt(None, FarFuture, "good"),
    Jwt("ghost", FarFuture, "good") }

\* Variant 2 reads no Authorization header.
IssuedTokens == IF variant = 1 THEN {h.token : h \in issued} ELSE {NoToken}

ClientTokens ==
  IF variant = 1 THEN {NoToken} \cup ForgedTokens \cup IssuedTokens ELSE {NoToken}

Uploads ==
  { Bytes("pdf", << <<"h", "i">>, <<>> >>),
    Bytes("pdf", << <<" ", "y", "o", " ">> >>),
    Bytes("garbage", <<>>) }

Form(fir_no, complaint_text) ==
  [fir_no |-> fir_no, fir_date |-> "2024-01-01", section |-> "420",
   victim_name |-> "V", fraud_amount |-> "100", complaint_text |-> complaint_text]

Forms ==
  { Form("1", <<"a", "\n", " ", "b", " ">>),
    Form("2", <<"c">>) }

Filenames ==
  { <<"FIR_", u>> : u \in Uuids } \cup { <<"nosuch.pdf", 0>>, <<"..", 0>> }

(* ------------------------------ requests ------------------------------- *)
NoResp == [status |-> 0, kind |-> "none", data |-> <<>>]

Resp(status, kind, data) == [status |-> status, kind |-> kind, data |-> data]

Idle ==
  [op |-> "idle", pc |-> "idle", token |-> NoToken, username |-> None,
   uuid |-> 0, input |-> <<>>, text |-> <<>>, err |-> FALSE, resp |-> NoResp]

Started(op, pc, token, username, u, input, text) ==
  [op |-> op, pc |-> pc, token |-> token, username |-> username,
   uuid |-> u, input |-> input, text |-> text, err |-> FALSE, resp |-> NoResp]

\* An HTTPException raised by a dependency: the handler body never runs.
Rejected(op, token, exc) ==
  [op |-> op, pc |-> "done", token |-> token, username |-> None,
   uuid |-> 0, input |-> <<>>, text |-> <<>>, err |-> FALSE,
   resp |-> Resp(exc.status, "detail", exc.headers)]

Done(rq, resp) == [rq EXCEPT !.pc = "done", !.resp = resp]

ServerError == Resp(500, "detail", <<>>)

\* A link a client holds, with the document the call that returned it drew.
download_link(name, document) == [name |-> name, bytes |-> document]

GenIdle == [pc |-> "idle", text |-> <<>>, lines |-> <<>>, y |-> 0, canvas |-> <<>>]

(* -------------------------------- Init --------------------------------- *)
InitService ==
  /\ now = 0
  /\ ticks = 0
  /\ issued = {}
  /\ fs = <<>>
  /\ audit_logs = <<>>
  /\ reqs = [r \in Reqs |-> Idle]
  /\ uuids = {}
  /\ links = {}

Init ==
  /\ variant \in {1, 2}
  /\ InitService
  /\ gen = GenIdle

\* The server some time after a successful login at minute 0.
InitConc ==
  /\ variant \in {1, 2}
  /\ now = 0
  /\ ticks = 0
  /\ issued = IF variant = 1
               THEN {[token |-> create_access_token("admin", ACCESS_TOKEN_EXPIRE_MINUTES, 0),
                      at |-> 0]}
               ELSE {}
  /\ fs = <<>>
  /\ audit_logs = <<>>
  /\ reqs = [r \in Reqs |-> Idle]
  /\ uuids = {}
  /\ links = {}
  /\ gen = GenIdle

LayoutForm(text) == Form("1", text)

Segment(p, i) ==
  IF p = 1 THEN <<"a">>
  ELSE IF p = 2 THEN <<>>
  ELSE IF i % 3 = 0 THEN <<>>
  ELSE IF i % 3 = 1 THEN <<" ", "a">>
  ELSE <<"a", "a", " ">>

LayoutTexts ==
  { join([i \in 1..(n + 1) |-> Segment(p, i)]) : n \in 0..MaxNewlines, p \in 1..3 }

\* generate_fir of variant 1 on entering the loop over the complaint lines.
InitLayout ==
  /\ variant = 1
  /\ InitService
  /\ \E text \in LayoutTexts :
       gen = [pc |-> "loop", text |-> text, lines |-> split(text),
              y |-> Header(LayoutForm(text)).y,
              canvas |-> Header(LayoutForm(text)).canvas]

(* ------------------------------- actions ------------------------------- *)
\* datetime.utcnow() moves forward between steps; only variant 1 reads it.
Tick(d) ==
  /\ variant = 1
  /\ ticks < MaxTicks
  /\ now' = now + d
  /\ ticks' = ticks + 1
  /\ UNCHANGED <<variant, issued, fs, audit_logs, reqs, uuids, links, gen>>

\* POST /token
login(r, form_data) ==
  /\ variant = 1
  /\ reqs[r].pc = "idle"
  /\ LET user == authenticate_user(fake_users_db, form_data.username, form_data.password)
     IN  IF user = NoUser
           THEN /\ reqs' = [reqs EXCEPT ![r] = Rejected("login", NoToken, [status |-> 400, headers |-> <<>>])]
                /\ UNCHANGED issued
           ELSE LET access_token ==
                      create_access_token(user.username, ACCESS_TOKEN_EXPIRE_MINUTES, now)
                IN  /\ Cardinality(issued) < MaxLogins
                    /\ issued' = issued \cup {[token |-> access_token, at |-> now]}
                    /\ reqs' = [reqs EXCEPT ![r] =
                                  Done(Started("login", "done", NoToken, user.username, 0, <<>>, <<>>),
                                       Resp(200, "access_token", <<access_token>>))]
  /\ UNCHANGED <<variant, now, ticks, fs, audit_logs, uuids, links, gen>>

\* POST /upload/ up to open(temp_filename, "wb"), which creates the file.
upload_pdf(r, token, file) ==
  /\ reqs[r].pc = "idle"
  /\ LET current_user == depends(variant, token, now)
     IN  IF ~current_user.ok
           THEN /\ reqs' = [reqs EXCEPT ![r] = Rejected("upload", token, current_user)]
                /\ UNCHANGED <<fs, uuids>>
           ELSE \E u \in uuid4 :
                  /\ uuids' = uuids \cup {u}
                  /\ fs' = write_file(fs, temp_filename(u), EmptyFile)
                  /\ reqs' = [reqs EXCEPT ![r] =
                                Started("upload", "write", token, current_user.username, u, file, <<>>)]
  /\ UNCHANGED <<variant, now, ticks, issued, audit_logs, links, gen>>

\* f.write(await file.read()): the bytes go to the opened file, which is
\* still linked under its name unless something removed it meanwhile.
upload_write(r) ==
  /\ reqs[r].op = "upload" /\ reqs[r].pc = "write"
  /\ LET path == temp_filename(reqs[r].uuid)
     IN  fs' = IF path \in DOMAIN fs THEN write_file(fs, path, reqs[r].input) ELSE fs
  /\ reqs' = [reqs EXCEPT ![r].pc = "extract"]
  /\ UNCHANGED <<variant, now, ticks, issued, audit_logs, uuids, links, gen>>

\* pdfplumber.open(temp_filename) and the loop over pdf.pages.  A parsing
\* error leaves the handler at once in variant 2 and runs the finally
\* clause first in variant 1.
upload_extract(r) ==
  /\ reqs[r].op = "upload" /\ reqs[r].pc = "extract"
  /\ LET path == temp_filename(reqs[r].uuid)
         ok == path \in DOMAIN fs /\ parses(fs[path])
     IN  IF ok
           THEN reqs' = [reqs EXCEPT ![r].pc = "remove",
                                     ![r].text = extract_pages(fs[path].data)]
           ELSE IF variant = 1
             THEN reqs' = [reqs EXCEPT ![r].pc = "remove", ![r].err = TRUE]
             ELSE reqs' = [reqs EXCEPT ![r] = Done(reqs[r], ServerError)]
  /\ UNCHANGED <<variant, now, ticks, issued, fs, audit_logs, uuids, links, gen>>

\* os.remove(temp_filename); variant 2 returns the text right after it.
upload_remove(r) ==
  /\ reqs[r].op = "upload" /\ reqs[r].pc = "remove"
  /\ LET path == temp_filename(reqs[r].uuid)
     IN  IF path \notin DOMAIN fs
           THEN /\ reqs' = [reqs EXCEPT ![r] = Done(reqs[r], ServerError)]
                /\ UNCHANGED fs
           ELSE /\ fs' = remove_file(fs, path)
                /\ reqs' = [reqs EXCEPT ![r] =
                              IF reqs[r].err THEN Done(reqs[r], ServerError)
                              ELSE IF variant = 1 THEN [reqs[r] EXCEPT !.pc = "log"]
                              ELSE Done(reqs[r], Resp(200, "extracted_text", strip(reqs[r].text)))]
  /\ UNCHANGED <<variant, now, ticks, issued, audit_logs, uuids, links, gen>>

\* Variant 1: log_action, then the response.
upload_log(r) ==
  /\ reqs[r].op = "upload" /\ reqs[r].pc = "log"
  /\ audit_logs' = log_action(audit_logs, reqs[r].username,
                              <<"Uploaded PDF and extracted text">>, now)
  /\ reqs' = [reqs EXCEPT ![r] = Done(reqs[r], Resp(200, "extracted_text", strip(reqs[r].text)))]
  /\ UNCHANGED <<variant, now, ticks, issued, fs, uuids, links, gen>>

\* POST /generate/ up to c.save(): the document is drawn in memory.
generate_fir(r, token, form) ==
  /\ reqs[r].pc = "idle"
  /\ LET current_user == depends(variant, token, now)
     IN  IF ~current_user.ok
           THEN /\ reqs' = [reqs EXCEPT ![r] = Rejected("generate", token, current_user)]
                /\ UNCHANGED uuids
           ELSE \E u \in uuid4 :
                  /\ uuids' = uuids \cup {u}
                  /\ reqs' = [reqs EXCEPT ![r] =
                                Started("generate", "save", token, current_user.username, u,
                                        form, generate_canvas(variant, form))]
  /\ UNCHANGED <<variant, now, ticks, issued, fs, audit_logs, links, gen>>

\* c.save() writes the file; variant 2 returns the link right after it.
generate_save(r) ==
  /\ reqs[r].op = "generate" /\ reqs[r].pc = "save"
  /\ LET path == output_filename(reqs[r].uuid)
     IN  /\ fs' = write_file(fs, path, reqs[r].text)
         /\ reqs' = [reqs EXCEPT ![r] =
                       IF variant = 1 THEN [reqs[r] EXCEPT !.pc = "log"]
                       ELSE Done(reqs[r], Resp(200, "download_link", basename(path)))]
         /\ links' = IF variant = 1 THEN links
                     ELSE links \cup {download_link(basename(path), reqs[r].text)}
  /\ UNCHANGED <<variant, now, ticks, issued, audit_logs, uuids, gen>>

\* Variant 1: log_action, then the response.
generate_log(r) ==
  /\ reqs[r].op = "generate" /\ reqs[r].pc = "log"
  /\ LET path == output_filename(reqs[r].uuid)
     IN  /\ audit_logs' = log_action(audit_logs, reqs[r].username,
                                     <<"Generated FIR PDF ", path>>, now)
         /\ reqs' = [reqs EXCEPT ![r] = Done(reqs[r], Resp(200, "download_link", basename(path)))]
         /\ links' = links \cup {download_link(basename(path), reqs[r].text)}
  /\ UNCHANGED <<variant, now, ticks, issued, fs, uuids, gen>>

\* FileResponse sends a regular file and raises on anything else.
FileResponse(path) ==
  IF path \in DOMAIN fs THEN Resp(200, "file", fs[path]) ELSE ServerError

\* GET /download/{filename}
download_file(r, token, filename) ==
  /\ reqs[r].pc = "idle"
  /\ LET current_user == depends(variant, token, now)
         file_path == os_path_join(OUTPUT_DIR, filename)
     IN  IF ~current_user.ok
           THEN reqs' = [reqs EXCEPT ![r] = Rejected("download", token, current_user)]
           ELSE reqs' = [reqs EXCEPT ![r] =
                           Done(Started("download", "done", token, current_user.username, 0,
                                        filename, <<>>),
                                IF os_path_exists(file_path) THEN FileResponse(file_path)
                                ELSE Resp(200, "error", <<"File not found">>))]
  /\ UNCHANGED <<variant, now, ticks, issued, fs, audit_logs, uuids, links, gen>>

\* The response has been sent; the worker takes the next request.
Finish(r) ==
  /\ reqs[r].pc = "done"
  /\ reqs' = [reqs EXCEPT ![r] = Idle]
  /\ UNCHANGED <<variant, now, ticks, issued, fs, audit_logs, uuids, links, gen>>

\* One pass through the body of the loop at lines 178-183.
layout_step ==
  /\ gen.pc = "loop" /\ gen.lines # <<>>
  /\ LET st == LoopBody([canvas |-> gen.canvas, y |-> gen.y], Head(gen.lines))
     IN  gen' = [gen EXCEPT !.lines = Tail(gen.lines), !.y = st.y, !.canvas = st.canvas]
  /\ UNCHANGED <<variant, now, ticks, issued, fs, audit_logs, reqs, uuids, links>>

\* c.save() after the loop.
layout_save ==
  /\ gen.pc = "loop" /\ gen.lines = <<>>
  /\ gen' = [gen EXCEPT !.pc = "saved", !.canvas = save(gen.canvas).data]
  /\ UNCHANGED <<variant, now, ticks, issued, fs, audit_logs, reqs, uuids, links>>

(* ---------------------------- specifications --------------------------- *)
\* One worker that takes a request when the previous one has been answered.
Worker == {1}

Next ==
  \/ \E d \in ClockSteps : Tick(d)
  \/ \E r \in Worker, c \in Credentials : login(r, c)
  \/ \E r \in Worker, t \in ClientTokens, f \in Uploads : upload_pdf(r, t, f)
  \/ \E r \in Worker : upload_write(r)
  \/ \E r \in Worker : upload_extract(r)
  \/ \E r \in Worker : upload_remove(r)
  \/ \E r \in Worker : upload_log(r)
  \/ \E r \in Worker, t \in ClientTokens, f \in Forms : generate_fir(r, t, f)
  \/ \E r \in Worker : generate_save(r)
  \/ \E r \in Worker : generate_log(r)
  \/ \E r \in Worker, t \in ClientTokens, n \in Filenames : download_file(r, t, n)
  \/ \E r \in Worker : Finish(r)

Spec == Init /\ [][Next]_vars

\* MaxReqs workers whose handlers interleave step by step, all calls
\* carrying a token the server issued.
NextConc ==
  \/ \E r \in Reqs, t \in IssuedTokens, f \in Uploads : upload_pdf(r, t, f)
  \/ \E r \in Reqs : upload_write(r)
  \/ \E r \in Reqs : upload_extract(r)
  \/ \E r \in Reqs : upload_remove(r)
  \/ \E r \in Reqs : upload_log(r)
  \/ \E r \in Reqs, t \in IssuedTokens, f \in Forms : generate_fir(r, t, f)
  \/ \E r \in Reqs : generate_save(r)
  \/ \E r \in Reqs : generate_log(r)
  \/ \E r \in Reqs, t \in IssuedTokens, n \in Filenames : download_file(r, t, n)
  \/ \E r \in Reqs : Finish(r)

SpecConc == InitConc /\ [][NextConc]_vars

NextLayout == layout_step \/ layout_save

SpecLayout == InitLayout /\ [][NextLayout]_vars

(* ------------------------------- claims -------------------------------- *)
Protected == {"upload", "generate", "download"}

Starts(r) == reqs[r].pc = "idle" /\ reqs'[r].pc # "idle"

Completes(r) == reqs[r].pc # "done" /\ reqs'[r].pc = "done"

IsRejected(rq) == rq.pc = "done" /\ rq.resp.status \in {400, 401}

Succeeded(rq) ==
  rq.resp.status = 200 /\ rq.resp.kind \in {"extracted_text", "download_link", "file"}

\* C1: in variant 1 every successful protected call (upload, generate,
\* download) appends exactly one audit row, with the caller's username, by
\* the time its response is returned.
C1_EveryProtectedCallLogged ==
  [][\A r \in Reqs :
       (variant = 1 /\ Completes(r) /\ reqs'[r].op \in Protected /\ Succeeded(reqs'[r]))
       => /\ Len(audit_logs') = Len(audit_logs) + 1
          /\ audit_logs'[Len(audit_logs')].username = reqs'[r].username]_vars

\* What C1 says, for upload and generate only (download never logs).
C1_UploadGenerateLogged ==
  [][\A r \in Reqs :
       (variant = 1 /\ Completes(r) /\ reqs'[r].op \in {"upload", "generate"}
          /\ Succeeded(reqs'[r]))
       => /\ Len(audit_logs') = Len(audit_logs) + 1
          /\ audit_logs'[Len(audit_logs')].username = reqs'[r].username]_vars

\* The token faults C2 lists, stated on the token and the clock alone.
InvalidToken(tok, t) ==
  \/ tok.sig = "missing"
  \/ tok.sig = "bad"
  \/ tok.exp < t
  \/ tok.sub = None
  \/ tok.sub \notin DOMAIN fake_users_db
  \/ fake_users_db[tok.sub].disabled

DisabledToken(tok, t) ==
  /\ tok.sig = "good" /\ ~(tok.exp < t)
  /\ tok.sub \in DOMAIN fake_users_db
  /\ fake_users_db[tok.sub].disabled

\* C2: in variant 1 a protected call with a missing, badly signed, expired,
\* subject-less, unknown-user or disabled-user token is answered 401 with
\* WWW-Authenticate: Bearer (400 for a disabled account) in the step that
\* takes it, and that step creates no file, takes no name, appends no audit
\* row and returns no document.
C2_InvalidTokenRejected ==
  [][\A r \in Reqs :
       (variant = 1 /\ Starts(r) /\ reqs'[r].op \in Protected
          /\ InvalidToken(reqs'[r].token, now))
       => /\ reqs'[r].pc = "done"
          /\ reqs'[r].resp.kind = "detail"
          /\ IF DisabledToken(reqs'[r].token, now)
               THEN reqs'[r].resp.status = 400
               ELSE /\ reqs'[r].resp.status = 401
                    /\ reqs'[r].resp.data = <<"WWW-Authenticate: Bearer">>
          /\ UNCHANGED <<fs, audit_logs, uuids, links>>]_vars

C2_Witness ==
  \E r \in Reqs :
    /\ reqs[r].op \in Protected /\ reqs[r].pc = "done"
    /\ reqs[r].resp.status = 401
    /\ reqs[r].token.sig = "good" /\ reqs[r].token.sub = "admin"
    /\ reqs[r].token.exp < now

C4_RoundTrip ==
  [][/\ \A g \in links' :
          /\ os_path_join(OUTPUT_DIR, g.name) \in DOMAIN fs'
          /\ fs'[os_path_join(OUTPUT_DIR, g.name)] = g.bytes
     /\ \A r \in Reqs : \A g \in links :
          (Starts(r) /\ reqs'[r].op = "download" /\ ~IsRejected(reqs'[r])
             /\ reqs'[r].input = g.name)
          => /\ reqs'[r].resp.status = 200
             /\ reqs'[r].resp.kind = "file"
             /\ reqs'[r].resp.data = g.bytes]_vars

C4_Witness ==
  \E r \in Reqs :
    /\ reqs[r].op = "download" /\ reqs[r].pc = "done"
    /\ reqs[r].resp.kind = "file"
    /\ Cardinality(links) >= 2
    /\ \E g \in links : g.name = reqs[r].input /\ g.bytes = reqs[r].resp.data

\* C5: in both variants no temp_<token>.pdf is on disk once no upload call
\* is running, whether extraction succeeded or raised.
C5_NoTempFileLeft ==
  (\A r \in Reqs : reqs[r].op = "upload" => reqs[r].pc = "done")
    => \A path \in DOMAIN fs : path[2] # "temp_"

\* The same for variant 1 alone.
C5_NoTempFileLeft_v1 == variant = 1 => C5_NoTempFileLeft

DrawnTexts(ops) ==
  LET idx == {i \in 1..Len(ops) : ops[i].op = "drawString"}
      RECURSIVE collect(_)
      collect(i) ==
        IF i > Len(ops) THEN <<>>
        ELSE (IF i \in idx THEN <<ops[i].text>> ELSE <<>>) \o collect(i + 1)
  IN  collect(1)

StrippedSegments(text) ==
  LET segs == split(text) IN [i \in 1..Len(segs) |-> strip(segs[i])]

\* The last Len(segs) drawn strings are the segments, in order.
DrawsSegments(ops, text) ==
  LET drawn == DrawnTexts(ops)
      segs == StrippedSegments(text)
  IN  /\ Len(drawn) >= Len(segs)
      /\ SubSeq(drawn, Len(drawn) - Len(segs) + 1, Len(drawn)) = segs

\* C6: in both variants the document /generate/ writes for a complaint_text
\* with N newlines holds at least N + 1 complaint lines, one per segment of
\* the text split on newline, in the order of the text.
C6_EverySegmentDrawn ==
  \A r \in Reqs :
    (reqs[r].op = "generate" /\ reqs[r].pc \in {"save", "log", "done"}
       /\ ~IsRejected(reqs[r]))
    => DrawsSegments(reqs[r].text.data, reqs[r].input.complaint_text)

\* The same for variant 1 alone.
C6_EverySegmentDrawn_v1 == variant = 1 => C6_EverySegmentDrawn

\* C7: for every interleaving of concurrent upload and generate calls, an
\* upload finds its own bytes under its temp name when it extracts, still
\* finds its file when it removes it, shares its temp name with no other
\* running upload and returns the text of its own PDF; a generate writes to
\* a name nothing was written to before and its file keeps its document.
C7_NoCollision ==
  /\ \A r \in Reqs : reqs[r].op = "upload" =>
       /\ reqs[r].pc = "write" =>
            /\ temp_filename(reqs[r].uuid) \in DOMAIN fs
            /\ fs[temp_filename(reqs[r].uuid)] = EmptyFile
       /\ reqs[r].pc = "extract" =>
            /\ temp_filename(reqs[r].uuid) \in DOMAIN fs
            /\ fs[temp_filename(reqs[r].uuid)] = reqs[r].input
       /\ reqs[r].pc = "remove" => temp_filename(reqs[r].uuid) \in DOMAIN fs
       /\ reqs[r].pc \in {"remove", "log"} /\ ~reqs[r].err =>
            reqs[r].text = extract_pages(reqs[r].input.data)
       /\ reqs[r].pc = "done" /\ ~IsRejected(reqs[r]) =>
            IF parses(reqs[r].input)
              THEN reqs[r].resp
                     = Resp(200, "extracted_text", strip(extract_pages(reqs[r].input.data)))
              ELSE reqs[r].resp = ServerError
       /\ \A q \in Reqs \ {r} :
            (reqs[q].op = "upload" /\ reqs[q].pc \in {"write", "extract", "remove"}
               /\ reqs[r].pc \in {"write", "extract", "remove"})
            => temp_filename(reqs[q].uuid) # temp_filename(reqs[r].uuid)
  /\ \A r \in Reqs : reqs[r].op = "generate" =>
       /\ reqs[r].pc = "save" => output_filename(reqs[r].uuid) \notin DOMAIN fs
       /\ reqs[r].pc \in {"log", "done"} /\ ~IsRejected(reqs[r]) =>
            /\ output_filename(reqs[r].uuid) \in DOMAIN fs
            /\ fs[output_filename(reqs[r].uuid)] = reqs[r].text

C7_Witness ==
  \E r, q \in Reqs :
    /\ r # q
    /\ reqs[r].op = "upload" /\ reqs[r].pc = "remove"
    /\ reqs[q].op = "upload" /\ reqs[q].pc = "extract"
    /\ reqs[r].input # reqs[q].input

\* C8: the audit log only grows: every step keeps every existing row as it
\* is, ids are pairwise different and timestamps do not decrease in the
\* order of the rows.
C8_AppendOnly ==
  [][/\ Len(audit_logs') >= Len(audit_logs)
     /\ \A i \in 1..Len(audit_logs) : audit_logs'[i] = audit_logs[i]
     /\ \A i, j \in 1..Len(audit_logs') :
          i < j => /\ audit_logs'[i].id # audit_logs'[j].id
                   /\ audit_logs'[i].timestamp <= audit_logs'[j].timestamp]_vars

C8_Witness ==
  /\ Len(audit_logs) >= 2
  /\ audit_logs[1].timestamp < audit_logs[2].timestamp
  /\ audit_logs[1].id # audit_logs[2].id

InOutputDir(f, filename) ==
  \E path \in DOMAIN f : path[1] = OUTPUT_DIR /\ basename(path) = filename

\* C9: a download of a name that is no file of the output directory returns
\* the body {error: "File not found"} as a normal response and changes
\* neither the directory nor the audit log; it returns the file stream
\* exactly when the output directory holds a file of that name.
C9_DownloadNotFound ==
  [][\A r \in Reqs :
       (Starts(r) /\ reqs'[r].op = "download" /\ ~IsRejected(reqs'[r]))
       => /\ ~InOutputDir(fs, reqs'[r].input)
               => /\ reqs'[r].resp = Resp(200, "error", <<"File not found">>)
                  /\ UNCHANGED <<fs, audit_logs>>
          /\ reqs'[r].resp.kind = "file" <=> InOutputDir(fs, reqs'[r].input)]_vars

\* The same for names other than "." and "..".
C9_DownloadNotFound_plain ==
  [][\A r \in Reqs :
       (Starts(r) /\ reqs'[r].op = "download" /\ ~IsRejected(reqs'[r])
          /\ reqs'[r].input[1] \notin {".", ".."})
       => /\ ~InOutputDir(fs, reqs'[r].input)
               => /\ reqs'[r].resp = Resp(200, "error", <<"File not found">>)
                  /\ UNCHANGED <<fs, audit_logs>>
          /\ reqs'[r].resp.kind = "file" <=> InOutputDir(fs, reqs'[r].input)]_vars

ComplaintOps == SubSeq(gen.canvas, Len(Header(LayoutForm(gen.text)).canvas) + 1, Len(gen.canvas))

\* C10: in variant 1 the first complaint line is drawn at height - 160, each
\* next line 15 lower on the same page exactly when that is not below 50 and
\* otherwise at height - 50 behind a page break; every complaint line lies
\* in 50 .. height - 50; a page break stands only between two complaint
\* lines; the cursor is 15 below the last line drawn.
C10_Cursor ==
  gen.pc \in {"loop", "saved"} =>
    LET ops == ComplaintOps
        n == IF gen.pc = "saved" THEN Len(ops) - 1 ELSE Len(ops)
    IN  /\ n >= 1 => ops[1].op = "drawString" /\ ops[1].y = height - Pt(160)
        /\ n = 0 => gen.y = height - Pt(160)
        /\ \A i \in 1..n :
             /\ ops[i].op \in {"drawString", "showPage"}
             /\ ops[i].op = "drawString" =>
                  /\ Pt(50) <= ops[i].y /\ ops[i].y <= height - Pt(50)
                  /\ i < n /\ ops[i + 1].op = "drawString" =>
                       /\ ops[i].y - Pt(15) >= Pt(50)
                       /\ ops[i + 1].y = ops[i].y - Pt(15)
                  /\ i = n => gen.y = ops[i].y - Pt(15)
             /\ ops[i].op = "showPage" =>
                  /\ 1 < i /\ i < n
                  /\ ops[i - 1].op = "drawString"
                  /\ ops[i - 1].y - Pt(15) < Pt(50)
                  /\ ops[i + 1].op = "drawString"
                  /\ ops[i + 1].y = height - Pt(50)
        /\ gen.pc = "saved" => ops[Len(ops)] = showPage

C10_Witness ==
  /\ gen.pc = "saved"
  /\ Cardinality({i \in 1..(Len(ComplaintOps) - 1) : ComplaintOps[i].op = "showPage"}) >= 2
  /\ \E i \in 1..Len(ComplaintOps) :
       ComplaintOps[i].op = "drawString" /\ ComplaintOps[i].y < Pt(65)

====
